---- MODULE Spec2Model ----
(***************************************************************************)
(* Model of the rows-table benchmark: the UI process of                    *)
(* frontend/src/main.rs (the App component's signals and click handlers,   *)
(* the build_data generation tasks and the process-wide ID_COUNTER) and    *)
(* the shell's create_row command of backend/src/main.rs.                  *)
(*                                                                         *)
(* The UI process is single-threaded and cooperative: a click handler runs *)
(* to completion, and a generation task runs from one `.await` of          *)
(* create_row to the next without interruption.  Every action below is one *)
(* such uninterrupted run.                                                 *)
(***************************************************************************)
EXTENDS Integers, Sequences, FiniteSets, TLC

VARIABLES
    data,         \* the `data` signal: Vec<RowData>, a sequence of [id, label]
    selected,     \* the `selected` signal: Option<usize>
    op_time_avg,  \* the `op_time_avg` signal, in units of 1/RUN_LOTS_DIVISOR ms
    ID_COUNTER,   \* static ID_COUNTER: AtomicUsize
    signals,      \* the reactive runtime's label cells, indexed by signal key
    tasks,        \* the futures given to spawn_local, in spawn order
    panicked,     \* a click handler indexed a Vec out of bounds
    pushed,       \* every row build_data has pushed so far, in push order (history)
    maker,        \* the task that created each label cell, by signal key (history)
    wrote,        \* the tasks that have called set_op_time_avg (history)
    cleared,      \* the tasks that were in flight when clear ran (history)
    clicks,       \* synchronous clicks the user still makes (bounds the model)
    last          \* <<operation, argument>> of the latest step (history)

vars == <<data, selected, op_time_avg, ID_COUNTER, signals, tasks,
          panicked, pushed, maker, wrote, cleared, clicks, last>>

----------------------------------------------------------------------------
(* Bounds of the model.  The source generates 1000 and 10000 rows per      *)
(* batch; the interleaving model generates BatchRows rows where the source *)
(* generates 1000 and BatchRows + 1 where it generates 10000; the user     *)
(* starts generation tasks as long as they generate at most MaxRows rows   *)
(* in all.                                                                 *)

BatchRows == 2
MaxRows == 5
MaxClicks == 2
MaxElapsed == 1
MaxProbe == 2
MaxTableClicks == 3

(* Program constants. *)
ID_COUNTER_INIT == 1
RUN_ROWS == 1000
UPDATE_STEP == 10
SWAP_A == 1
SWAP_B == 998
RUN_LOTS_DIVISOR == 10

ADJECTIVES ==
    << "pretty", "large", "big", "small", "tall", "short", "long", "handsome",
       "plain", "quaint", "clean", "elegant", "easy", "angry", "crazy",
       "helpful", "mushy", "odd", "unsightly", "adorable", "important",
       "inexpensive", "cheap", "expensive", "fancy" >>

COLOURS ==
    << "red", "yellow", "blue", "green", "pink", "brown", "purple", "brown",
       "white", "black", "orange" >>

NOUNS ==
    << "table", "chair", "house", "bbq", "desk", "car", "pony", "cookie",
       "sandwich", "burger", "pizza", "mouse", "keyboard" >>

MARKER == " !!!"

(* The draws of thread_rng the model enumerates: <<adjective, colour,      *)
(* noun>> indices, 1-based.                                                *)
WordDraws == { <<1, 1, 1>> }

----------------------------------------------------------------------------
(* Option<usize> *)
None == << >>
Some(x) == << x >>

(* build_data, lines 64-73: the label of one row. *)
MakeLabel(w) == ADJECTIVES[w[1]] \o " " \o COLOURS[w[2]] \o " " \o NOUNS[w[3]]

(* The count each handler passes to build_data. *)
CountOf(kind) ==
    CASE kind = "run" -> BatchRows
      [] kind = "run_lots" -> BatchRows + 1
      [] kind = "add" -> BatchRows

(* The rows all tasks spawned so far were asked for. *)
RECURSIVE RowsAsked(_)
RowsAsked(ts) == IF ts = << >> THEN 0 ELSE CountOf(Head(ts).kind) + RowsAsked(Tail(ts))

RowIds(v) == { v[p].id : p \in 1..Len(v) }

(* build_data, line 76: the id a new row takes. *)
LoadId(counter) == counter

(* Variant: the store writes the counter back without the increment. *)
StoreSame(counter) == counter

(* build_data, line 86: the value stored back after a push. *)
StoreNext(counter) == counter + 1

(* build_data, lines 75-82: the row under construction and the create_row  *)
(* call it sends, given the iteration index, the counter and the next free *)
(* signal key. *)
NewRow(counter, key) == [id |-> LoadId(counter), label |-> key]
NewCall(i, counter, w) == [iid |-> i, rid |-> LoadId(counter), label |-> MakeLabel(w)]

(* Variant: the generated rows go in front of the collection. *)
PrependRows(v, rows) == rows \o v

(* Vec::append as add uses it (line 135). *)
AppendRows(v, rows) == v \o rows

(* Vec::retain as remove uses it (line 109). *)
Retain(v, id) == SelectSeq(v, LAMBDA row : row.id # id)

(* Zero-based positions visited by iter().step_by(10) (line 143). *)
StepPositions(len) == { p \in 0..(len - 1) : p % UPDATE_STEP = 0 }

(* String::push_str(" !!!"), n times over. *)
RECURSIVE PushMarker(_, _)
PushMarker(label, n) == IF n = 0 THEN label ELSE PushMarker(label \o MARKER, n - 1)

(* Variant: every 10th row counting from one (positions 9, 19, ...). *)
UpdateLabelsFromOne(sigs, v) ==
    LET visits == { p \in 0..(Len(v) - 1) : (p + 1) % UPDATE_STEP = 0 }
        cells == { v[p + 1].label : p \in visits }
    IN  [k \in DOMAIN sigs |->
            IF k \in cells
            THEN PushMarker(sigs[k], Cardinality({ p \in visits : v[p + 1].label = k }))
            ELSE sigs[k]]

(* Lines 142-146: every visited row's label cell gets the marker pushed,   *)
(* once per visit of a row that holds the cell.                            *)
UpdateLabels(sigs, v) ==
    LET visits == StepPositions(Len(v))
        cells == { v[p + 1].label : p \in visits }
    IN  [k \in DOMAIN sigs |->
            IF k \in cells
            THEN PushMarker(sigs[k], Cardinality({ p \in visits : v[p + 1].label = k }))
            ELSE sigs[k]]

(* Variant: the guard admits the length 998. *)
SwapGuardOffByOne(len) == len >= SWAP_B

(* Line 157: the guard of the swap. *)
SwapGuard(len) == len > SWAP_B

(* Vec::swap(a, b) on zero-based indices; it panics out of bounds. *)
SwapInBounds(v, a, b) == a < Len(v) /\ b < Len(v)
VecSwap(v, a, b) ==
    [p \in 1..Len(v) |-> IF p = a + 1 THEN v[b + 1]
                          ELSE IF p = b + 1 THEN v[a + 1]
                          ELSE v[p]]

(* Lines 116, 125, 137: the value written to op_time_avg, as a multiple of *)
(* 1/RUN_LOTS_DIVISOR ms (run_lots divides the elapsed time by 10.0).      *)
Metric(kind, elapsed) ==
    IF kind = "run_lots" THEN elapsed ELSE elapsed * RUN_LOTS_DIVISOR

(* The rows the user can click: the model clicks on the first and the last *)
(* MaxProbe rendered rows.                                                 *)
ProbeIds(v) ==
    { v[p].id : p \in { q \in 1..Len(v) : q <= MaxProbe \/ q > Len(v) - MaxProbe } }

----------------------------------------------------------------------------
(* Initial state: App's create_signal calls (lines 104-106) and the static *)
(* of line 52.                                                             *)
Init ==
    /\ data = << >>
    /\ selected = None
    /\ op_time_avg = 0
    /\ ID_COUNTER = ID_COUNTER_INIT
    /\ signals = << >>
    /\ tasks = << >>
    /\ panicked = FALSE
    /\ pushed = << >>
    /\ maker = << >>
    /\ wrote = {}
    /\ cleared = {}
    /\ clicks = MaxClicks
    /\ last = <<"init", 0>>

----------------------------------------------------------------------------
(* Generation tasks. *)

(* The shell's command (backend/src/main.rs): Ok(()) for every call. *)
create_row(iid, rid, label) == "Ok"

(* js_sys::Date::now() - start (lines 114-116, 123-125, 132-137): the wall *)
(* time a task took, in ms; the model enumerates 0..MaxElapsed.            *)
Elapsed == 0..MaxElapsed

(* A task that has ended: its locals are moved out or dropped. *)
NoRow == [id |-> 0, label |-> 0]
NoCall == [iid |-> 0, rid |-> 0, label |-> ""]
Ended(task, pc) ==
    [kind |-> task.kind, i |-> 0, data |-> << >>,
     r_data |-> NoRow, call |-> NoCall, pc |-> pc]

(* Variant: the metric is written when the task starts, before any row. *)
SpawnWritesMetric(kind, w) ==
    /\ RowsAsked(tasks) + CountOf(kind) <= MaxRows
    /\ tasks' = Append(tasks,
            [kind |-> kind, i |-> 0, data |-> << >>,
             r_data |-> NewRow(ID_COUNTER, Len(signals) + 1),
             call |-> NewCall(0, ID_COUNTER, w), pc |-> "await"])
    /\ signals' = Append(signals, MakeLabel(w))
    /\ maker' = Append(maker, Len(tasks) + 1)
    /\ op_time_avg' = Metric(kind, 0)
    /\ wrote' = wrote \cup {Len(tasks) + 1}
    /\ last' = <<kind, Len(tasks) + 1>>
    /\ UNCHANGED <<data, ID_COUNTER, panicked, pushed, cleared, clicks>>

(* spawn_local of run / run_lots / add: the task takes `start` and runs    *)
(* build_data up to the first create_row(..).await.                        *)
Spawn(kind, w) ==
    /\ RowsAsked(tasks) + CountOf(kind) <= MaxRows
    /\ tasks' = Append(tasks,
            [kind |-> kind, i |-> 0, data |-> << >>,
             r_data |-> NewRow(ID_COUNTER, Len(signals) + 1),
             call |-> NewCall(0, ID_COUNTER, w), pc |-> "await"])
    /\ signals' = Append(signals, MakeLabel(w))
    /\ maker' = Append(maker, Len(tasks) + 1)
    /\ last' = <<kind, Len(tasks) + 1>>
    /\ UNCHANGED <<data, op_time_avg, ID_COUNTER, panicked, pushed, wrote, cleared, clicks>>

(* Click on "Create 1,000 rows". *)
Run == \E w \in WordDraws : Spawn("run", w) /\ selected' = None

(* Click on "Create 10,000 rows". *)
RunLots == \E w \in WordDraws : Spawn("run_lots", w) /\ selected' = None

(* Click on "Append 1,000 rows". *)
Add == \E w \in WordDraws : Spawn("add", w) /\ UNCHANGED selected

(* Variant: on a failed round trip the task gives up and installs the rows *)
(* it has pushed so far.                                                   *)
CreateRowFailPartial(t) ==
    /\ tasks[t].pc = "await"
    /\ tasks' = [tasks EXCEPT ![t] = Ended(@, "panicked")]
    /\ data' = IF tasks[t].kind = "add" THEN data \o tasks[t].data ELSE tasks[t].data
    /\ last' = <<"panic", t>>
    /\ UNCHANGED <<selected, op_time_avg, ID_COUNTER, signals,
                   panicked, pushed, maker, wrote, cleared, clicks>>

(* The round trip fails and .expect("oops") panics: the task is gone. *)
CreateRowFail(t) ==
    /\ tasks[t].pc = "await"
    /\ tasks' = [tasks EXCEPT ![t] = Ended(@, "panicked")]
    /\ last' = <<"panic", t>>
    /\ UNCHANGED <<data, selected, op_time_avg, ID_COUNTER, signals,
                   panicked, pushed, maker, wrote, cleared, clicks>>

(* Variant: each pushed row is also put into the collection at once. *)
ResumeNextIncremental(t, w) ==
    /\ tasks[t].pc = "await"
    /\ create_row(tasks[t].call.iid, tasks[t].call.rid, tasks[t].call.label) = "Ok"
    /\ tasks[t].i + 1 < CountOf(tasks[t].kind)
    /\ ID_COUNTER' = StoreNext(ID_COUNTER)
    /\ tasks' = [tasks EXCEPT ![t] =
            [@ EXCEPT !.data = Append(@, tasks[t].r_data),
                      !.i = @ + 1,
                      !.r_data = NewRow(ID_COUNTER', Len(signals) + 1),
                      !.call = NewCall(tasks[t].i + 1, ID_COUNTER', w)]]
    /\ signals' = Append(signals, MakeLabel(w))
    /\ maker' = Append(maker, t)
    /\ pushed' = Append(pushed, tasks[t].r_data)
    /\ data' = Append(data, tasks[t].r_data)
    /\ last' = <<"resume", t>>
    /\ UNCHANGED <<selected, op_time_avg, panicked, wrote, cleared, clicks>>

(* Variant: the store writes the id read before the await, plus one. *)
ResumeNextStaleStore(t, w) ==
    /\ tasks[t].pc = "await"
    /\ create_row(tasks[t].call.iid, tasks[t].call.rid, tasks[t].call.label) = "Ok"
    /\ tasks[t].i + 1 < CountOf(tasks[t].kind)
    /\ ID_COUNTER' = tasks[t].r_data.id + 1
    /\ tasks' = [tasks EXCEPT ![t] =
            [@ EXCEPT !.data = Append(@, tasks[t].r_data),
                      !.i = @ + 1,
                      !.r_data = NewRow(ID_COUNTER', Len(signals) + 1),
                      !.call = NewCall(tasks[t].i + 1, ID_COUNTER', w)]]
    /\ signals' = Append(signals, MakeLabel(w))
    /\ maker' = Append(maker, t)
    /\ pushed' = Append(pushed, tasks[t].r_data)
    /\ last' = <<"resume", t>>
    /\ UNCHANGED <<data, selected, op_time_avg, panicked, wrote, cleared, clicks>>

(* The task resumes from the await, pushes the row, stores the counter and *)
(* runs the next iteration up to its await.                                *)
ResumeNext(t, w) ==
    /\ tasks[t].pc = "await"
    /\ create_row(tasks[t].call.iid, tasks[t].call.rid, tasks[t].call.label) = "Ok"
    /\ tasks[t].i + 1 < CountOf(tasks[t].kind)
    /\ ID_COUNTER' = StoreNext(ID_COUNTER)
    /\ tasks' = [tasks EXCEPT ![t] =
            [@ EXCEPT !.data = Append(@, tasks[t].r_data),
                      !.i = @ + 1,
                      !.r_data = NewRow(ID_COUNTER', Len(signals) + 1),
                      !.call = NewCall(tasks[t].i + 1, ID_COUNTER', w)]]
    /\ signals' = Append(signals, MakeLabel(w))
    /\ maker' = Append(maker, t)
    /\ pushed' = Append(pushed, tasks[t].r_data)
    /\ last' = <<"resume", t>>
    /\ UNCHANGED <<data, selected, op_time_avg, panicked, wrote, cleared, clicks>>

(* Variant: a create appends its rows as add does. *)
InstalledAlwaysAppends(kind, v, rows) == AppendRows(v, rows)

(* The value of `data` after a task installs `rows`: set_data(rows) for    *)
(* run and run_lots, data.append(rows) for add.                            *)
Installed(kind, v, rows) == IF kind = "add" THEN AppendRows(v, rows) ELSE rows

(* Variant: the task installs its batch and ends without the metric. *)
ResumeFinishNoMetric(t, d) ==
    /\ tasks[t].pc = "await"
    /\ create_row(tasks[t].call.iid, tasks[t].call.rid, tasks[t].call.label) = "Ok"
    /\ tasks[t].i + 1 = CountOf(tasks[t].kind)
    /\ ID_COUNTER' = StoreNext(ID_COUNTER)
    /\ data' = Installed(tasks[t].kind, data, Append(tasks[t].data, tasks[t].r_data))
    /\ tasks' = [tasks EXCEPT ![t] = Ended(@, "done")]
    /\ pushed' = Append(pushed, tasks[t].r_data)
    /\ last' = <<"install", t>>
    /\ UNCHANGED <<selected, op_time_avg, signals, panicked, maker, wrote, cleared, clicks>>

(* The task resumes from its last await, pushes the row, stores the        *)
(* counter, leaves the loop, installs the batch and writes the metric.     *)
ResumeFinish(t, d) ==
    /\ tasks[t].pc = "await"
    /\ create_row(tasks[t].call.iid, tasks[t].call.rid, tasks[t].call.label) = "Ok"
    /\ tasks[t].i + 1 = CountOf(tasks[t].kind)
    /\ ID_COUNTER' = StoreNext(ID_COUNTER)
    /\ data' = Installed(tasks[t].kind, data, Append(tasks[t].data, tasks[t].r_data))
    /\ tasks' = [tasks EXCEPT ![t] = Ended(@, "done")]
    /\ op_time_avg' = Metric(tasks[t].kind, d)
    /\ wrote' = wrote \cup {t}
    /\ pushed' = Append(pushed, tasks[t].r_data)
    /\ last' = <<"install", t>>
    /\ UNCHANGED <<selected, signals, panicked, maker, cleared, clicks>>

----------------------------------------------------------------------------
(* Synchronous click handlers. *)

(* Variant: remove drops the selection of the row it removes. *)
RemoveRepairsSelection(id) ==
    /\ clicks > 0
    /\ id \in ProbeIds(data)
    /\ data' = Retain(data, id)
    /\ selected' = IF selected = Some(id) THEN None ELSE selected
    /\ clicks' = clicks - 1
    /\ last' = <<"remove", id>>
    /\ UNCHANGED <<op_time_avg, ID_COUNTER, signals, tasks, panicked, pushed, maker, wrote, cleared>>

Remove(id) ==
    /\ clicks > 0
    /\ id \in ProbeIds(data)
    /\ data' = Retain(data, id)
    /\ clicks' = clicks - 1
    /\ last' = <<"remove", id>>
    /\ UNCHANGED <<selected, op_time_avg, ID_COUNTER, signals, tasks, panicked, pushed, maker, wrote, cleared>>

Select(id) ==
    /\ clicks > 0
    /\ id \in ProbeIds(data)
    /\ selected' = Some(id)
    /\ clicks' = clicks - 1
    /\ last' = <<"select", id>>
    /\ UNCHANGED <<data, op_time_avg, ID_COUNTER, signals, tasks, panicked, pushed, maker, wrote, cleared>>

Update ==
    /\ clicks > 0
    /\ signals' = UpdateLabels(signals, data)
    /\ clicks' = clicks - 1
    /\ last' = <<"update", 0>>
    /\ UNCHANGED <<data, selected, op_time_avg, ID_COUNTER, tasks, panicked, pushed, maker, wrote, cleared>>

(* Variant: clear forgets the timing metric. *)
ClearKeepsMetric ==
    /\ clicks > 0
    /\ data' = << >>
    /\ selected' = None
    /\ clicks' = clicks - 1
    /\ cleared' = cleared \cup { t \in 1..Len(tasks) : tasks[t].pc = "await" }
    /\ last' = <<"clear", 0>>
    /\ UNCHANGED <<op_time_avg, ID_COUNTER, signals, tasks, panicked, pushed, maker, wrote>>

(* Variant: clear drops the generation tasks in flight. *)
ClearCancels ==
    /\ clicks > 0
    /\ data' = << >>
    /\ selected' = None
    /\ op_time_avg' = 0
    /\ clicks' = clicks - 1
    /\ cleared' = cleared \cup { t \in 1..Len(tasks) : tasks[t].pc = "await" }
    /\ tasks' = [t \in 1..Len(tasks) |->
                    IF tasks[t].pc = "await" THEN Ended(tasks[t], "cancelled") ELSE tasks[t]]
    /\ last' = <<"clear", 0>>
    /\ UNCHANGED <<ID_COUNTER, signals, panicked, pushed, maker, wrote>>

Clear ==
    /\ clicks > 0
    /\ data' = << >>
    /\ selected' = None
    /\ op_time_avg' = 0
    /\ clicks' = clicks - 1
    /\ cleared' = cleared \cup { t \in 1..Len(tasks) : tasks[t].pc = "await" }
    /\ last' = <<"clear", 0>>
    /\ UNCHANGED <<ID_COUNTER, signals, tasks, panicked, pushed, maker, wrote>>

SwapRows ==
    /\ clicks > 0
    /\ IF SwapGuard(Len(data))
       THEN IF SwapInBounds(data, SWAP_A, SWAP_B)
            THEN data' = VecSwap(data, SWAP_A, SWAP_B) /\ UNCHANGED panicked
            ELSE panicked' = TRUE /\ UNCHANGED data
       ELSE UNCHANGED <<data, panicked>>
    /\ clicks' = clicks - 1
    /\ last' = <<"swap", 0>>
    /\ UNCHANGED <<selected, op_time_avg, ID_COUNTER, signals, tasks, pushed,
                   maker, wrote, cleared>>

----------------------------------------------------------------------------
Next ==
    \/ Run
    \/ RunLots
    \/ Add
    \/ \E t \in 1..Len(tasks) : CreateRowFail(t)
    \/ \E t \in 1..Len(tasks) : \E w \in WordDraws : ResumeNext(t, w)
    \/ \E t \in 1..Len(tasks) : \E d \in Elapsed : ResumeFinish(t, d)
    \/ \E id \in ProbeIds(data) : Remove(id)
    \/ \E id \in ProbeIds(data) : Select(id)
    \/ Update
    \/ Clear
    \/ SwapRows

Spec == Init /\ [][Next]_vars

----------------------------------------------------------------------------
(* The program with the shell as backend/src/main.rs has it: every         *)
(* create_row call is answered with Ok(()).                                *)
NextOk ==
    \/ Run
    \/ RunLots
    \/ Add
    \/ \E t \in 1..Len(tasks) : \E w \in WordDraws : ResumeNext(t, w)
    \/ \E t \in 1..Len(tasks) : \E d \in Elapsed : ResumeFinish(t, d)
    \/ \E id \in ProbeIds(data) : Remove(id)
    \/ \E id \in ProbeIds(data) : Select(id)
    \/ Update
    \/ Clear
    \/ SwapRows

SpecOk == Init /\ [][NextOk]_vars

(* The shell answers the outstanding call of task t and the executor of    *)
(* spawn_local resumes the task.                                           *)
TaskStep(t) ==
    /\ t \in 1..Len(tasks)
    /\ \/ \E w \in WordDraws : ResumeNext(t, w)
       \/ \E d \in Elapsed : ResumeFinish(t, d)

(* The tasks the model can spawn. *)
TaskIds == 1..(MaxRows \div BatchRows)

(* Every outstanding call is answered in the end and every woken task is   *)
(* run in the end.                                                         *)
SpecFair == SpecOk /\ \A t \in TaskIds : WF_vars(TaskStep(t))

----------------------------------------------------------------------------
(* The table at its real size.  The state after one click on "Create 1,000 *)
(* rows" in a fresh process has run to completion: 1000 rows with the ids  *)
(* 1..1000; from there the user only uses the synchronous handlers.        *)

(* The draws of thread_rng for the k-th row of that batch. *)
TableDraw(k) ==
    << (k % Len(ADJECTIVES)) + 1, (k % Len(COLOURS)) + 1, (k % Len(NOUNS)) + 1 >>

TableRows == [k \in 1..RUN_ROWS |-> [id |-> ID_COUNTER_INIT + k - 1, label |-> k]]

InitTable ==
    /\ data = TableRows
    /\ selected = None
    /\ op_time_avg = Metric("run", MaxElapsed)
    /\ ID_COUNTER = ID_COUNTER_INIT + RUN_ROWS
    /\ signals = [k \in 1..RUN_ROWS |-> MakeLabel(TableDraw(k))]
    /\ tasks = << Ended([kind |-> "run"], "done") >>
    /\ panicked = FALSE
    /\ pushed = TableRows
    /\ maker = [k \in 1..RUN_ROWS |-> 1]
    /\ wrote = {1}
    /\ cleared = {}
    /\ clicks = MaxTableClicks
    /\ last = <<"install", 1>>

NextTable ==
    \/ \E id \in ProbeIds(data) : Remove(id)
    \/ \E id \in ProbeIds(data) : Select(id)
    \/ Update
    \/ Clear
    \/ SwapRows

SpecTable == InitTable /\ [][NextTable]_vars

----------------------------------------------------------------------------
(* Properties. *)

IsCreate(kind) == kind \in {"run", "run_lots"}
InFlight(t) == tasks[t].pc = "await"
DistinctIds(v) == \A p, q \in 1..Len(v) : p # q => v[p].id # v[q].id
IncreasingIds(v) == \A p \in 1..(Len(v) - 1) : v[p].id < v[p + 1].id
RemoveAt(v, p) == SubSeq(v, 1, p - 1) \o SubSeq(v, p + 1, Len(v))

(* C1: in every reachable state the row collection holds no two rows with  *)
(* the same id.                                                            *)
C1_NoDuplicateIds == DistinctIds(data)

(* C2: over all rows build_data has ever pushed, installed or not, no two  *)
(* rows have the same id.                                                  *)
C2_IdsNeverReused == DistinctIds(pushed)

(* C3: in the state in which a Create N task has installed its result, the *)
(* collection is exactly N rows whose ids strictly increase by position    *)
(* (and so are pairwise distinct), whatever ran interleaved with the task. *)
C3_CreateInstallsNIncreasing ==
    \A t \in 1..Len(tasks) :
        (last = <<"install", t>> /\ IsCreate(tasks[t].kind))
            => /\ Len(data) = CountOf(tasks[t].kind)
               /\ IncreasingIds(data)
               /\ DistinctIds(data)

(* A Create has installed a batch whose ids have a gap: another task       *)
(* pushed a row between two pushes of this one.                            *)
C3_Witness ==
    \E t \in 1..Len(tasks) :
        /\ last = <<"install", t>>
        /\ IsCreate(tasks[t].kind)
        /\ \E p \in 1..(Len(data) - 1) : data[p + 1].id > data[p].id + 1

(* C4: the step in which an Append N task installs its result onto a       *)
(* collection of M rows leaves M + N rows: the M rows as they were, in the *)
(* same order, then the N generated rows in generation order.              *)
C4_AppendInstall ==
    [][ \A t \in 1..Len(tasks) :
            (InFlight(t) /\ tasks[t].kind = "add" /\ tasks'[t].pc = "done")
                => /\ Len(data') = Len(data) + CountOf("add")
                   /\ SubSeq(data', 1, Len(data)) = data
                   /\ SubSeq(data', Len(data) + 1, Len(data'))
                        = Append(tasks[t].data, tasks[t].r_data) ]_vars

(* An Append has installed its rows behind rows that were there before. *)
C4_Witness ==
    \E t \in 1..Len(tasks) :
        /\ last = <<"install", t>>
        /\ tasks[t].kind = "add"
        /\ Len(data) > CountOf("add")

(* C5: Remove(id) on a collection that contains id leaves it exactly one   *)
(* row shorter, without id, the other rows in their order; on a collection *)
(* without id it changes nothing.                                          *)
C5_RemoveOneRow ==
    [][ \A id \in RowIds(data) \cup {last'[2]} :
            (last' = <<"remove", id>> /\ clicks' = clicks - 1)
                => IF id \in RowIds(data)
                   THEN /\ Len(data') = Len(data) - 1
                        /\ id \notin RowIds(data')
                        /\ \E p \in 1..Len(data) :
                              data[p].id = id /\ data' = RemoveAt(data, p)
                   ELSE data' = data ]_vars

(* C6: the state right after Clear has an empty collection, no selection   *)
(* and a timing metric of zero, whatever came before and whatever is in    *)
(* flight.                                                                 *)
C6_ClearResets ==
    last[1] = "clear" => data = << >> /\ selected = None /\ op_time_avg = 0

(* Clear has run while a generation task is in flight. *)
C6_Witness ==
    /\ last[1] = "clear"
    /\ \E t \in 1..Len(tasks) : InFlight(t)
    /\ \E t \in 1..Len(tasks) : tasks[t].pc = "done"

(* C7: in the state in which a Create task has installed its rows, the     *)
(* selection is none.                                                      *)
C7_CreateInstallSelectionNone ==
    \A t \in 1..Len(tasks) :
        (last = <<"install", t>> /\ IsCreate(tasks[t].kind)) => selected = None

(* C8: Swap on at most 998 rows changes nothing; on more it exchanges the  *)
(* rows at the zero-based positions 1 and 998 and nothing else; it never   *)
(* indexes out of bounds.                                                  *)
C8_Swap ==
    [][ (last' = <<"swap", 0>> /\ clicks' = clicks - 1)
            => /\ ~panicked'
               /\ Len(data) <= 998 => data' = data
               /\ Len(data) > 998 =>
                    /\ Len(data') = Len(data)
                    /\ data'[2] = data[999]
                    /\ data'[999] = data[2]
                    /\ \A p \in 1..Len(data) : p \notin {2, 999} => data'[p] = data[p] ]_vars

(* Swap has exchanged two rows of a collection of exactly 999 rows. *)
C8_Witness ==
    /\ last = <<"swap", 0>>
    /\ Len(data) = 999
    /\ data[2].id > data[999].id

(* C9: one Update pushes the marker exactly once onto the label of every   *)
(* row at a zero-based position divisible by 10, leaves every other row's  *)
(* label as it was, and leaves the collection (ids, order, length) as it   *)
(* was.                                                                    *)
C9_Update ==
    [][ (last' = <<"update", 0>> /\ clicks' = clicks - 1)
            => /\ data' = data
               /\ \A p \in 1..Len(data) :
                    signals'[data[p].label] =
                        IF (p - 1) % 10 = 0
                        THEN signals[data[p].label] \o " !!!"
                        ELSE signals[data[p].label] ]_vars

(* Update has run on more than ten rows: the row at position 10 carries    *)
(* the marker once, the row at position 9 does not.                        *)
C9_Witness ==
    /\ last = <<"update", 0>>
    /\ Len(data) > 10
    /\ signals[data[11].label] = MakeLabel(TableDraw(data[11].label)) \o " !!!"
    /\ signals[data[10].label] = MakeLabel(TableDraw(data[10].label))

(* The label cells of the rows a task holds: pushed and under construction. *)
BatchCells(t) ==
    { tasks[t].data[p].label : p \in 1..Len(tasks[t].data) } \cup {tasks[t].r_data.label}

(* C10: a task that has not installed its result yet has none of its rows  *)
(* in the collection, and its steps before the install leave the           *)
(* collection as it is; the install puts the whole batch in.               *)
C10_NoPartOfBatch ==
    \A t \in 1..Len(tasks) :
        InFlight(t) => \A p \in 1..Len(data) : data[p].label \notin BatchCells(t)

C10_TaskStep ==
    \A t \in 1..Len(tasks) :
        /\ (InFlight(t) /\ tasks'[t].pc = "await" /\ tasks'[t] # tasks[t]) => data' = data
        /\ (InFlight(t) /\ tasks'[t].pc = "done")
              => \A k \in BatchCells(t) : \E p \in 1..Len(data') : data'[p].label = k

C10_AtomicInstall == []C10_NoPartOfBatch /\ [][C10_TaskStep]_vars

(* A task is between two of its round trips, with part of its batch        *)
(* generated, while the collection holds rows of another batch.            *)
C10_Witness ==
    \E t \in 1..Len(tasks) :
        /\ last = <<"resume", t>>
        /\ Len(tasks[t].data) >= 1
        /\ data # << >>

DataCells(v) == { v[p].label : p \in 1..Len(v) }

(* C11: a task writes the timing metric only once its generation is over   *)
(* and its rows are installed: no task that has written the metric has a   *)
(* create_row round trip outstanding, and in the state in which a task has *)
(* just written the metric its whole batch is in the collection.           *)
C11_WritersAreDone == \A t \in wrote : tasks[t].pc = "done"

C11_WriteStep ==
    \A t \in wrote' \ wrote :
        /\ t \in 1..Len(tasks)
        /\ InFlight(t)
        /\ tasks'[t].pc = "done"
        /\ BatchCells(t) \subseteq DataCells(data')

C11_MetricAfterInstall == []C11_WritersAreDone /\ [][C11_WriteStep]_vars

(* A task has just written a non-zero metric while another task, which has *)
(* not written it, is still generating.                                    *)
C11_Witness ==
    \E t, u \in 1..Len(tasks) :
        /\ last = <<"install", t>>
        /\ t \in wrote
        /\ op_time_avg # 0
        /\ InFlight(u)
        /\ u \notin wrote

(* C12: nothing keeps two Creates from overlapping, and the collection     *)
(* after the install step of a Create is exactly that task's batch, in     *)
(* generation order, whatever another Create installed before it and       *)
(* whichever of the two was clicked first: the install that runs last      *)
(* decides the collection.                                                 *)
C12_LastInstallWins ==
    [][ \A t \in 1..Len(tasks) :
            (InFlight(t) /\ IsCreate(tasks[t].kind) /\ tasks'[t].pc = "done")
                => data' = Append(tasks[t].data, tasks[t].r_data) ]_vars

(* Two Creates overlapped: the second one clicked has completed, and the   *)
(* first one clicked has installed after it; the collection holds the rows *)
(* of the first one only.                                                  *)
C12_Witness ==
    /\ Len(tasks) >= 2
    /\ last = <<"install", 1>>
    /\ IsCreate(tasks[1].kind)
    /\ IsCreate(tasks[2].kind)
    /\ tasks[2].pc = "done"
    /\ data # << >>
    /\ \A p \in 1..Len(data) : maker[data[p].label] = 1

(* The label cells task t has created, one per create_row call it issued. *)
CellsOf(mk, t) == { k \in 1..Len(mk) : mk[k] = t }

(* C13: a task whose create_row round trip has failed is gone for good:    *)
(* the failing step changes neither the collection nor the metric, the     *)
(* task issues no further create_row call and takes no further step, none  *)
(* of its rows is ever in the collection and it never writes the metric.   *)
C13_PanickedLeavesNothing ==
    \A t \in 1..Len(tasks) :
        tasks[t].pc = "panicked"
            => /\ t \notin wrote
               /\ \A p \in 1..Len(data) : maker[data[p].label] # t

C13_PanicStep ==
    \A t \in 1..Len(tasks) :
        /\ (InFlight(t) /\ tasks'[t].pc = "panicked")
              => /\ data' = data
                 /\ op_time_avg' = op_time_avg
                 /\ signals' = signals
        /\ tasks[t].pc = "panicked"
              => /\ tasks'[t] = tasks[t]
                 /\ CellsOf(maker', t) = CellsOf(maker, t)

C13_FailureIsFatal == []C13_PanickedLeavesNothing /\ [][C13_PanicStep]_vars

(* A task has panicked after it had pushed rows, while the collection      *)
(* holds rows.                                                             *)
C13_Witness ==
    \E t \in 1..Len(tasks) :
        /\ last = <<"panic", t>>
        /\ \E p \in 1..Len(pushed) : maker[pushed[p].label] = t
        /\ data # << >>

(* The step is the resumption of task t: t has pushed a row. *)
Answered(t) ==
    /\ Len(pushed') = Len(pushed) + 1
    /\ maker[pushed'[Len(pushed')].label] = t

(* C14: when every call is answered and every woken task is run, every     *)
(* started Create or Append ends with its batch installed and the metric   *)
(* written; and a task moves only when one of its calls is answered: as    *)
(* long as the shell does not answer, no other step installs its rows,     *)
(* writes the metric for it, times it out or cancels it.                   *)
C14_EveryTaskCompletes ==
    \A t \in TaskIds :
        (Len(tasks) >= t) ~> (Len(tasks) >= t /\ tasks[t].pc = "done" /\ t \in wrote)

C14_OnlyAReplyMovesATask ==
    \A t \in 1..Len(tasks) :
        (InFlight(t) /\ ~Answered(t))
            => /\ tasks'[t] = tasks[t]
               /\ t \notin wrote'
               /\ \A p \in 1..Len(data') : maker[data'[p].label] # t

C14_Completion == C14_EveryTaskCompletes /\ [][C14_OnlyAReplyMovesATask]_vars

(* Two tasks were started and both have installed and written the metric. *)
C14_Witness ==
    /\ Len(tasks) >= 2
    /\ \A t \in 1..Len(tasks) : tasks[t].pc = "done" /\ t \in wrote

(* C15: the ids build_data hands out are those of a reference counter      *)
(* from which every row takes its id with one atomic fetch-and-increment   *)
(* when it is built: the k-th row built gets id ID_COUNTER_INIT + k - 1.   *)
C15_IdsOfAtomicCounter ==
    \A p \in 1..Len(pushed) : pushed[p].id = ID_COUNTER_INIT + pushed[p].label - 1

(* C16: Clear leaves the generation tasks in flight as they are; a task    *)
(* that was in flight at a Clear goes on to install its whole batch and to *)
(* write the metric in the same step.                                      *)
C16_ClearedGoOn ==
    \A t \in TaskIds : (t \in cleared) ~> (Len(tasks) >= t /\ tasks[t].pc = "done" /\ t \in wrote)

C16_ClearStep ==
    /\ (last' = <<"clear", 0>> /\ clicks' = clicks - 1) => tasks' = tasks
    /\ \A t \in cleared :
          (InFlight(t) /\ tasks'[t].pc = "done")
              => /\ BatchCells(t) \subseteq DataCells(data')
                 /\ t \in wrote'
                 /\ \E d \in Elapsed : op_time_avg' = Metric(tasks[t].kind, d)

C16_ClearDoesNotCancel == C16_ClearedGoOn /\ [][C16_ClearStep]_vars

(* The only generation ever started was in flight at a Clear and has since *)
(* installed rows and written a non-zero metric.                           *)
C16_Witness ==
    /\ Len(tasks) = 1
    /\ 1 \in cleared
    /\ tasks[1].pc = "done"
    /\ data # << >>
    /\ op_time_avg # 0

(* C17: Remove, Update, Swap and the install step of an Append leave the   *)
(* selection as it was.                                                    *)
C17_SelectionFrame ==
    [][ (\/ last'[1] \in {"remove", "update", "swap"} /\ clicks' = clicks - 1
         \/ \E t \in 1..Len(tasks) :
               InFlight(t) /\ tasks[t].kind = "add" /\ tasks'[t].pc = "done")
            => selected' = selected ]_vars

(* The selected row has just been removed: the selection names an id no    *)
(* row of the collection has.                                              *)
C17_Witness ==
    /\ last[1] = "remove"
    /\ selected = Some(last[2])
    /\ last[2] \notin RowIds(data)

(* C18: whenever no task is running, the counter is its initial value plus *)
(* the number of rows pushed so far by all tasks, and no step lowers it.   *)
C18_CounterIsPushCount == ID_COUNTER = ID_COUNTER_INIT + Len(pushed)

C18_CounterCountsPushes ==
    []C18_CounterIsPushCount /\ [][ID_COUNTER' >= ID_COUNTER]_vars

(* Two tasks have pushed rows in turn: one pushed, then the other, then    *)
(* the first again.                                                        *)
C18_Witness ==
    \E p, q, r \in 1..Len(pushed) :
        /\ p < q /\ q < r
        /\ maker[pushed[p].label] = maker[pushed[r].label]
        /\ maker[pushed[p].label] # maker[pushed[q].label]

====
